---- MODULE Spec2Model ----
(***************************************************************************)
(* Model of src/menu.rs: the Menu and MenuItem proxies of the menu plugin, *)
(* the requests they send to the host through core::invoke and             *)
(* core::invoke_result, and the event channels they own.                   *)
(*                                                                         *)
(* crate::core (invoke, invoke_result, Channel) is not part of menu.rs; it *)
(* is modelled from the design document: a request/response primitive and  *)
(* a numbered channel with an ordered inbox.  The host and the transport   *)
(* are the environment.                                                    *)
(***************************************************************************)
EXTENDS Integers, Sequences, FiniteSets, TLC

\* ------------------------------------------------------------------ bounds
MaxCalls == 3      \* asynchronous calls started in one run
MaxMsgs == 2       \* events the host emits in one run
MaxCreates == 2    \* constructor calls among them; the host issues handles 1..MaxCreates
MaxSets == 2       \* set_* calls on one MenuItemOptions

Handles == 1..MaxCreates
MenuIds == {"main"}                  \* ids the application gives a menu
ItemIds == {"open-item"}             \* ids the application gives an item
HostIds == {"open-item", "host-7"}   \* ids the host answers with
Texts == {"Open", "Quit"}
Payloads == {"click"}

\* ------------------------------------------------------------ Option<T>
None == <<>>
Some(x) == <<x>>
IsSome(o) == Len(o) = 1
Unwrap(o) == o[1]

\* ------------------------------------------------ serialized (wire) values
JNull == "null"
JStr(s) == "\"" \o s \o "\""
JBool(b) == IF b THEN "true" ELSE "false"

\* pub struct MenuId(pub String), From<String> / From<&'static str>
MenuIdFrom(s) == [value |-> s]
\* #[serde(transparent)]: a MenuId serializes as its string
MenuIdSerialize(m) == JStr(m.value)

\* Option<MenuId>, Option<bool>, Option<String> under derive(Serialize)
OptionMenuIdSerialize(o) == IF IsSome(o) THEN MenuIdSerialize(Unwrap(o)) ELSE JNull
OptionBoolSerialize(o) == IF IsSome(o) THEN JBool(Unwrap(o)) ELSE JNull
OptionStringSerialize(o) == IF IsSome(o) THEN JStr(Unwrap(o)) ELSE JNull

\* ------------------------------------------------------------- ItemKind
ItemKind_MenuItem == 0
ItemKind_Predefined == 1
ItemKind_Check == 2
ItemKind_Icon == 3
ItemKind_Submenu == 4
ItemKind_Menu == 5

\* mutant: an arm of the match copied without changing its string
ItemKind_as_str_dup(k) ==
    CASE k = ItemKind_MenuItem -> "MenuItem"
      [] k = ItemKind_Predefined -> "Predefined"
      [] k = ItemKind_Check -> "Check"
      [] k = ItemKind_Icon -> "Icon"
      [] k = ItemKind_Submenu -> "Menu"
      [] k = ItemKind_Menu -> "Menu"

ItemKind_as_str(k) ==
    CASE k = ItemKind_MenuItem -> "MenuItem"
      [] k = ItemKind_Predefined -> "Predefined"
      [] k = ItemKind_Check -> "Check"
      [] k = ItemKind_Icon -> "Icon"
      [] k = ItemKind_Submenu -> "Submenu"
      [] k = ItemKind_Menu -> "Menu"

\* ------------------------------------------------------------ ChannelId
\* ChannelId::from(&channel): the id of that channel
ChannelIdFrom(channel) == [id |-> channel]

\* mutant: the id serialized as a bare object, without the marker field
ChannelIdSerialize_bare(c) == ("id" :> c.id)

\* impl Serialize for ChannelId: a struct of two fields
ChannelIdSerialize(c) ==
    ("__TAURI_CHANNEL_MARKER__" :> TRUE) @@ ("id" :> c.id)

\* ------------------------------------------------- MenuOptions, MenuItemOptions
MenuOptionsSerialize(o) == [id |-> OptionMenuIdSerialize(o.id)]

\* mutant: new() chooses a default for enabled
MenuItemOptionsNew_enabled(text) ==
    [id |-> None, text |-> text, enabled |-> Some(TRUE), accelerator |-> None]

MenuItemOptionsNew(text) ==
    [id |-> None, text |-> text, enabled |-> None, accelerator |-> None]
MenuItemOptionsSetId(o, id) == [o EXCEPT !.id = Some(MenuIdFrom(id))]
\* mutant: get_or_insert instead of insert: the first value stays
MenuItemOptionsSetEnabled_keepFirst(o, enabled) ==
    IF IsSome(o.enabled) THEN o ELSE [o EXCEPT !.enabled = Some(enabled)]

MenuItemOptionsSetEnabled(o, enabled) == [o EXCEPT !.enabled = Some(enabled)]
MenuItemOptionsSetAccelerator(o, accelerator) ==
    [o EXCEPT !.accelerator = Some(accelerator)]

MenuItemOptionsSerialize(o) ==
    [id |-> OptionMenuIdSerialize(o.id),
     text |-> JStr(o.text),
     enabled |-> OptionBoolSerialize(o.enabled),
     accelerator |-> OptionStringSerialize(o.accelerator)]

\* option values a caller of MenuItem::with_options passes
OptionInputs == {MenuItemOptionsSetEnabled(MenuItemOptionsNew("Open"), FALSE)}

\* ---------------------------------------------------------------- state
VARIABLES
    calls,      \* the asynchronous calls started so far, by call number
    proxies,    \* the Menu and MenuItem objects returned to the caller
    channels,   \* core::Channel objects by id: the inbox of each
    sent,       \* the requests handed to the transport, in order
    host,       \* the host: channels registered, handles issued, events emitted
    emitted,    \* every event the host emitted, by channel id, in order
    early,      \* the events emitted before their channel's constructor returned
    consumed,   \* what the caller drained through listen(), by proxy
    observed,   \* what the last rid() or listen() call returned
    builder,    \* the MenuItemOptions the caller is building, as an Option
    history     \* the new() and set_* calls made on it, in order

vars == <<calls, proxies, channels, sent, host, emitted, early, consumed,
          observed, builder, history>>

NoAnswer == [tag |-> "none", rid |-> 0, id |-> ""]
NoObservation == [proxy |-> 0, op |-> "none", rid |-> 0, channel |-> None]

Init ==
    /\ calls = <<>>
    /\ proxies = <<>>
    /\ channels = <<>>
    /\ sent = <<>>
    /\ host = [registered |-> {}, issued |-> {}, seq |-> 0]
    /\ emitted = <<>>
    /\ early = {}
    /\ consumed = <<>>
    /\ observed = NoObservation
    /\ builder = None
    /\ history = <<>>

\* ------------------------------------------------------- crate::core
\* core::Channel::new(): a fresh channel with a process-unique id
ChannelNew == Len(channels) + 1

\* core::invoke::<(Rid, String)>: the decoded response
InvokeValue(answer) == <<answer.rid, answer.id>>

\* core::invoke_result: Ok(()) when the host answered without an error, and
\* Err(()) for a rejection of any kind
InvokeResult(call) ==
    IF call.st = "answered" /\ call.answer.tag = "value" THEN "Ok" ELSE "Err"

\* A call in flight: the operation and its arguments (input: the caller's
\* strings; self, item: the proxies it was called on), the constructor's local
\* channel, the answer of the host, and what the call returned (ret: the
\* proxy a constructor returned; result: Ok or Err of a fallible call).
NewCall(op, input, self, item, channel) ==
    [op |-> op, st |-> "sent", input |-> input, self |-> self, item |-> item,
     channel |-> channel, answer |-> NoAnswer, ret |-> 0, result |-> "pending"]

Request(c, cmd, args) == [call |-> c, cmd |-> cmd, args |-> args]

Creations ==
    {"Menu::with_id", "Menu::default", "MenuItem::with_id", "MenuItem::with_options"}
Fallibles == {"Menu::append_item", "Menu::popup"}

IsMenu(p) == p \in DOMAIN proxies /\ proxies[p].type = "Menu"
IsMenuItem(p) == p \in DOMAIN proxies /\ proxies[p].type = "MenuItem"

\* ------------------------------------------------------------ impl Menu
MenuRid(m) == proxies[m].rid
MenuKind == ItemKind_as_str(ItemKind_Menu)
MenuListen(m) == proxies[m].channel

\* ------------------------------------------------------ impl item::MenuItem
MenuItemRid(i) == proxies[i].rid
MenuItemKind == ItemKind_as_str(ItemKind_MenuItem)
MenuItemListen(i) == proxies[i].channel

\* Menu::with_id: Args { kind, options, handler }
MenuWithIdArgs(id, channel) ==
    [kind |-> JStr(ItemKind_as_str(ItemKind_Menu)),
     options |-> MenuOptionsSerialize([id |-> Some(MenuIdFrom(id))]),
     handler |-> ChannelIdSerialize(ChannelIdFrom(channel))]

\* mutant: with_id forgets to keep its channel
MenuWithIdSelf_noChannel(rid, id, channel) ==
    [type |-> "Menu", rid |-> rid, id |-> MenuIdFrom(id), channel |-> None]

\* Menu::with_id: Self { rid, id: id.into(), channel: Some(channel) }
MenuWithIdSelf(rid, id, channel) ==
    [type |-> "Menu", rid |-> rid, id |-> MenuIdFrom(id), channel |-> Some(channel)]

\* mutant: the default menu claims a channel it never allocated
MenuDefaultSelf_withChannel(rid, id) ==
    [type |-> "Menu", rid |-> rid, id |-> MenuIdFrom(id), channel |-> Some(1)]

\* Menu::default: Self { rid, id: id.into(), channel: None }
MenuDefaultSelf(rid, id) ==
    [type |-> "Menu", rid |-> rid, id |-> MenuIdFrom(id), channel |-> None]

\* mutant: the handler names the first channel, not the one just allocated
MenuItemWithOptionsArgs_staleHandler(options, channel) ==
    [kind |-> JStr(ItemKind_as_str(ItemKind_MenuItem)),
     options |-> MenuItemOptionsSerialize(options),
     handler |-> ChannelIdSerialize(ChannelIdFrom(1))]

\* MenuItem::with_options: Args { kind, options, handler }
MenuItemWithOptionsArgs(options, channel) ==
    [kind |-> JStr(ItemKind_as_str(ItemKind_MenuItem)),
     options |-> MenuItemOptionsSerialize(options),
     handler |-> ChannelIdSerialize(ChannelIdFrom(channel))]

\* mutant: the two integers of the constructor confused, rid taken from the
\* channel
MenuItemSelf_ridFromChannel(rid, id, channel) ==
    [type |-> "MenuItem", rid |-> channel, id |-> MenuIdFrom(id), channel |-> channel]

\* MenuItem::with_options: Self { rid, id: id.into(), channel }
MenuItemSelf(rid, id, channel) ==
    [type |-> "MenuItem", rid |-> rid, id |-> MenuIdFrom(id), channel |-> channel]

\* mutant: the child slot tagged with Self::kind(), the parent's kind
AppendItemArgs_parentKind(m, i) ==
    [rid |-> proxies[m].rid,
     kind |-> JStr(ItemKind_as_str(ItemKind_Menu)),
     items |-> << <<proxies[i].rid, JStr(ItemKind_as_str(ItemKind_Menu))>> >>]

\* Menu::append_item: AppendItemArgs { rid, kind, items }
AppendItemArgs(m, i) ==
    [rid |-> proxies[m].rid,
     kind |-> JStr(MenuKind),
     items |-> << <<MenuItemRid(i), JStr(MenuItemKind)>> >>]

\* mutant: popup tagged with the kind of an item
PopupArgs_itemKind(m) ==
    [rid |-> proxies[m].rid,
     kind |-> JStr(ItemKind_as_str(ItemKind_MenuItem)),
     window |-> JNull,
     at |-> JNull]

\* Menu::popup: Args { rid, kind, window: None, at: None }
PopupArgs(m) ==
    [rid |-> proxies[m].rid,
     kind |-> JStr(MenuKind),
     window |-> JNull,
     at |-> JNull]

\* ------------------------------------------------------------- actions
\* the constructor calls started so far
Creates == Cardinality({c \in DOMAIN calls : calls[c].op \in Creations})

\* The part of a constructor up to its await: allocate the channel, send.
StartWithChannel(op, input, args, channel) ==
    /\ Len(calls) < MaxCalls
    /\ Creates < MaxCreates
    /\ channels' = Append(channels, <<>>)
    /\ emitted' = Append(emitted, <<>>)
    /\ sent' = Append(sent, Request(Len(calls) + 1, "plugin:menu|new", args))
    /\ calls' = Append(calls, NewCall(op, input, 0, 0, Some(channel)))
    /\ UNCHANGED <<observed, proxies, host, early, consumed>>

MenuWithId(id) ==
    LET channel == ChannelNew
    IN  /\ StartWithChannel("Menu::with_id", <<id>>, MenuWithIdArgs(id, channel), channel)
        /\ UNCHANGED <<builder, history>>

MenuDefault ==
    /\ Len(calls) < MaxCalls
    /\ Creates < MaxCreates
    /\ sent' = Append(sent, Request(Len(calls) + 1, "plugin:menu|create_default", JNull))
    /\ calls' = Append(calls, NewCall("Menu::default", <<>>, 0, 0, None))
    /\ UNCHANGED <<observed, builder, history, proxies, channels, host, emitted, early, consumed>>

MenuItemWithOptions(options) ==
    LET channel == ChannelNew
    IN  /\ StartWithChannel("MenuItem::with_options", <<>>,
                            MenuItemWithOptionsArgs(options, channel), channel)
        /\ UNCHANGED <<builder, history>>

MenuItemWithId(text, id) ==
    LET options == MenuItemOptionsSetId(MenuItemOptionsNew(text), id)
        channel == ChannelNew
    IN  /\ StartWithChannel("MenuItem::with_id", <<text, id>>,
                            MenuItemWithOptionsArgs(options, channel), channel)
        /\ UNCHANGED <<builder, history>>

\* The part of a constructor after its await: build Self from the response.
ReturnProxy(c, proxy) ==
    /\ proxies' = Append(proxies, proxy)
    /\ consumed' = Append(consumed, <<>>)
    /\ calls' = [calls EXCEPT ![c].st = "returned", ![c].ret = Len(proxies) + 1]
    /\ UNCHANGED <<observed, builder, history, channels, sent, host, emitted, early>>

\* mutant: the constructor goes on with whatever came back
Resolved_anyAnswer(c) ==
    /\ c \in DOMAIN calls
    /\ calls[c].st = "answered"

\* the await of core::invoke::<(Rid, String)> has produced its value
Resolved(c) ==
    /\ c \in DOMAIN calls
    /\ calls[c].st = "answered"
    /\ calls[c].answer.tag = "value"

\* mutant: the menu keeps the id the caller asked for, not the one answered
MenuWithIdReturn_callerId(c) ==
    /\ Resolved(c)
    /\ calls[c].op = "Menu::with_id"
    /\ LET r == InvokeValue(calls[c].answer)
       IN  ReturnProxy(c, MenuWithIdSelf(r[1], calls[c].input[1], Unwrap(calls[c].channel)))

\* mutant: the channel is allocated after the await, so that the proxy keeps
\* a channel the host never heard of
MenuWithIdReturn_newChannel(c) ==
    /\ Resolved(c)
    /\ calls[c].op = "Menu::with_id"
    /\ LET r == InvokeValue(calls[c].answer)
       IN  /\ proxies' = Append(proxies, MenuWithIdSelf(r[1], r[2], ChannelNew))
           /\ channels' = Append(channels, <<>>)
           /\ emitted' = Append(emitted, <<>>)
           /\ consumed' = Append(consumed, <<>>)
           /\ calls' = [calls EXCEPT ![c].st = "returned", ![c].ret = Len(proxies) + 1]
           /\ UNCHANGED <<observed, builder, history, sent, host, early>>

MenuWithIdReturn(c) ==
    /\ Resolved(c)
    /\ calls[c].op = "Menu::with_id"
    /\ LET r == InvokeValue(calls[c].answer)
       IN  ReturnProxy(c, MenuWithIdSelf(r[1], r[2], Unwrap(calls[c].channel)))

\* mutant: the default menu is handed out before its response, with no handle
MenuDefaultReturn_eager(c) ==
    /\ c \in DOMAIN calls
    /\ calls[c].st = "sent"
    /\ calls[c].op = "Menu::default"
    /\ ReturnProxy(c, MenuDefaultSelf(0, ""))

MenuDefaultReturn(c) ==
    /\ Resolved(c)
    /\ calls[c].op = "Menu::default"
    /\ LET r == InvokeValue(calls[c].answer)
       IN  ReturnProxy(c, MenuDefaultSelf(r[1], r[2]))

\* mutant: the item keeps the channel allocated last, not its own
MenuItemWithOptionsReturn_lastChannel(c) ==
    /\ Resolved(c)
    /\ calls[c].op \in {"MenuItem::with_id", "MenuItem::with_options"}
    /\ LET r == InvokeValue(calls[c].answer)
       IN  ReturnProxy(c, MenuItemSelf(r[1], r[2], Len(channels)))

\* mutant: the item takes the handle of the first response, not of its own
MenuItemWithOptionsReturn_firstAnswer(c) ==
    /\ Resolved(c)
    /\ calls[c].op \in {"MenuItem::with_id", "MenuItem::with_options"}
    /\ LET r == InvokeValue(calls[c].answer)
           first == InvokeValue(calls[1].answer)
       IN  ReturnProxy(c, MenuItemSelf(IF Resolved(1) \/ calls[1].st = "returned"
                                       THEN first[1] ELSE r[1],
                                       r[2], Unwrap(calls[c].channel)))

MenuItemWithOptionsReturn(c) ==
    /\ Resolved(c)
    /\ calls[c].op \in {"MenuItem::with_id", "MenuItem::with_options"}
    /\ LET r == InvokeValue(calls[c].answer)
       IN  ReturnProxy(c, MenuItemSelf(r[1], r[2], Unwrap(calls[c].channel)))

\* core::invoke has no error value to return: a rejected or undecodable
\* response ends the constructor without a value.
InvokePanic(c) ==
    /\ c \in DOMAIN calls
    /\ calls[c].op \in Creations
    /\ calls[c].st = "answered"
    /\ calls[c].answer.tag # "value"
    /\ calls' = [calls EXCEPT ![c].st = "aborted"]
    /\ UNCHANGED <<observed, builder, history, proxies, channels, sent, host, emitted, early, consumed>>

AppendItem(m, i) ==
    /\ Len(calls) < MaxCalls
    /\ IsMenu(m) /\ IsMenuItem(i)
    /\ sent' = Append(sent, Request(Len(calls) + 1, "plugin:menu|append", AppendItemArgs(m, i)))
    /\ calls' = Append(calls, NewCall("Menu::append_item", <<>>, m, i, None))
    /\ UNCHANGED <<observed, builder, history, proxies, channels, host, emitted, early, consumed>>

Popup(m) ==
    /\ Len(calls) < MaxCalls
    /\ IsMenu(m)
    /\ sent' = Append(sent, Request(Len(calls) + 1, "plugin:menu|popup", PopupArgs(m)))
    /\ calls' = Append(calls, NewCall("Menu::popup", <<>>, m, 0, None))
    /\ UNCHANGED <<observed, builder, history, proxies, channels, host, emitted, early, consumed>>

\* mutant: a rejected call is sent again instead of returning Err
FallibleReturn_retry(c) ==
    /\ c \in DOMAIN calls
    /\ calls[c].op \in Fallibles
    /\ calls[c].st = "answered"
    /\ IF InvokeResult(calls[c]) = "Err"
       THEN /\ sent' = Append(sent, sent[c])
            /\ calls' = [calls EXCEPT ![c].st = "returned", ![c].result = "Err"]
       ELSE /\ sent' = sent
            /\ calls' = [calls EXCEPT ![c].st = "returned", ![c].result = "Ok"]
    /\ UNCHANGED <<observed, builder, history, proxies, channels, host, emitted, early, consumed>>

\* mutant: a rejected call clears the handle of the menu it was made on
FallibleReturn_invalidates(c) ==
    /\ c \in DOMAIN calls
    /\ calls[c].op \in Fallibles
    /\ calls[c].st = "answered"
    /\ calls' = [calls EXCEPT ![c].st = "returned", ![c].result = InvokeResult(calls[c])]
    /\ proxies' = IF InvokeResult(calls[c]) = "Err"
                  THEN [proxies EXCEPT ![calls[c].self].rid = 0]
                  ELSE proxies
    /\ UNCHANGED <<observed, builder, history, channels, sent, host, emitted, early, consumed>>

\* append_item and popup return what invoke_result resolves to
FallibleReturn(c) ==
    /\ c \in DOMAIN calls
    /\ calls[c].op \in Fallibles
    /\ calls[c].st = "answered"
    /\ calls' = [calls EXCEPT ![c].st = "returned", ![c].result = InvokeResult(calls[c])]
    /\ UNCHANGED <<observed, builder, history, proxies, channels, sent, host, emitted, early, consumed>>

\* the channel listen() gives for proxy p, as an Option
Listen(p) == IF IsMenu(p) THEN MenuListen(p) ELSE Some(MenuItemListen(p))

\* the caller takes the next message from the channel listen() returns
Recv(p) ==
    /\ p \in DOMAIN proxies
    /\ IsSome(Listen(p))
    /\ LET ch == Unwrap(Listen(p))
       IN  /\ ch \in DOMAIN channels
           /\ channels[ch] # <<>>
           /\ consumed' = [consumed EXCEPT ![p] = Append(@, Head(channels[ch]))]
           /\ channels' = [channels EXCEPT ![ch] = Tail(@)]
    /\ UNCHANGED <<observed, builder, history, calls, proxies, sent, host, emitted, early>>

\* Menu::rid / MenuItem::rid on proxy p: the caller gets self.rid
CallRid(p) ==
    /\ p \in DOMAIN proxies
    /\ observed' = [proxy |-> p, op |-> "rid",
                    rid |-> IF IsMenu(p) THEN MenuRid(p) ELSE MenuItemRid(p),
                    channel |-> None]
    /\ UNCHANGED <<calls, proxies, channels, sent, host, emitted, early, consumed,
                   builder, history>>

\* mutant: listen() takes the channel out of the menu
CallListen_take(p) ==
    /\ p \in DOMAIN proxies
    /\ observed' = [proxy |-> p, op |-> "listen", rid |-> 0, channel |-> Listen(p)]
    /\ proxies' = IF IsMenu(p) THEN [proxies EXCEPT ![p].channel = None] ELSE proxies
    /\ UNCHANGED <<calls, channels, sent, host, emitted, early, consumed,
                   builder, history>>

\* Menu::listen / MenuItem::listen on proxy p: the caller gets a borrow of
\* the stored channel
CallListen(p) ==
    /\ p \in DOMAIN proxies
    /\ observed' = [proxy |-> p, op |-> "listen", rid |-> 0, channel |-> Listen(p)]
    /\ UNCHANGED <<calls, proxies, channels, sent, host, emitted, early, consumed,
                   builder, history>>

\* the values a caller passes to the setters of MenuItemOptions
Accelerators == {"CmdOrCtrl+O"}
\* one call on the builder: the method and its argument, a string or a bool
BuilderCall(field, string, bool) == [field |-> field, string |-> string, bool |-> bool]

\* MenuItemOptions::new(text)
OptionsNew(text) ==
    /\ builder = None
    /\ builder' = Some(MenuItemOptionsNew(text))
    /\ history' = <<BuilderCall("text", text, FALSE)>>
    /\ UNCHANGED <<calls, proxies, channels, sent, host, emitted, early, consumed,
                   observed>>

\* one set_* call on the options being built
OptionsSet(call, o) ==
    /\ IsSome(builder)
    /\ Len(history) <= MaxSets
    /\ builder' = Some(o)
    /\ history' = Append(history, call)
    /\ UNCHANGED <<calls, proxies, channels, sent, host, emitted, early, consumed,
                   observed>>

OptionsSetId(id) ==
    OptionsSet(BuilderCall("id", id, FALSE),
               MenuItemOptionsSetId(Unwrap(builder), id))

OptionsSetEnabled(enabled) ==
    OptionsSet(BuilderCall("enabled", "", enabled),
               MenuItemOptionsSetEnabled(Unwrap(builder), enabled))

OptionsSetAccelerator(accelerator) ==
    OptionsSet(BuilderCall("accelerator", accelerator, FALSE),
               MenuItemOptionsSetAccelerator(Unwrap(builder), accelerator))

\* MenuItem::with_options(options) with the options built so far, which move
\* into the call
MenuItemWithBuiltOptions ==
    /\ IsSome(builder)
    /\ LET channel == ChannelNew
       IN  StartWithChannel("MenuItem::with_options", history,
                            MenuItemWithOptionsArgs(Unwrap(builder), channel), channel)
    /\ builder' = None
    /\ history' = <<>>

\* ------------------------------------------------- host and transport
RequestOf(c) == sent[CHOOSE k \in DOMAIN sent : sent[k].call = c]

\* the channel ids a request registers: a handler counts only with the marker
HandlerIds(req) ==
    IF /\ req.cmd = "plugin:menu|new"
       /\ "__TAURI_CHANNEL_MARKER__" \in DOMAIN req.args.handler
       /\ req.args.handler["__TAURI_CHANNEL_MARKER__"] = TRUE
    THEN {req.args.handler["id"]}
    ELSE {}

Pending(c) == c \in DOMAIN calls /\ calls[c].st = "sent"

Answer(c, tag, h, s) ==
    calls' = [calls EXCEPT ![c].st = "answered",
                           ![c].answer = [tag |-> tag, rid |-> h, id |-> s]]

\* the host creates the object and answers (handle, entity id)
HostAnswerCreate(c, h, s) ==
    /\ Pending(c)
    /\ calls[c].op \in Creations
    /\ h \notin host.issued
    /\ Answer(c, "value", h, s)
    /\ host' = [host EXCEPT !.issued = @ \cup {h},
                            !.registered = @ \cup HandlerIds(RequestOf(c))]
    /\ UNCHANGED <<observed, builder, history, proxies, channels, sent, emitted, early, consumed>>

\* the host performs an append or a popup and answers without an error
HostAnswerUnit(c) ==
    /\ Pending(c)
    /\ calls[c].op \in Fallibles
    /\ Answer(c, "value", 0, "")
    /\ UNCHANGED <<observed, builder, history, proxies, channels, sent, host, emitted, early, consumed>>

\* the host answers a creation with what does not decode as (Rid, String)
HostAnswerGarbage(c) ==
    /\ Pending(c)
    /\ calls[c].op \in Creations
    /\ Answer(c, "garbage", 0, "")
    /\ host' = [host EXCEPT !.registered = @ \cup HandlerIds(RequestOf(c))]
    /\ UNCHANGED <<observed, builder, history, proxies, channels, sent, emitted, early, consumed>>

\* the call is rejected: the host refuses it, or cannot be reached
Reject(c) ==
    /\ Pending(c)
    /\ Answer(c, "error", 0, "")
    /\ UNCHANGED <<observed, builder, history, proxies, channels, sent, host, emitted, early, consumed>>

\* the constructor that allocated channel ch has returned its proxy
ConstructorReturned(ch) ==
    \E c \in DOMAIN calls : calls[c].channel = Some(ch) /\ calls[c].st = "returned"

\* the host emits an event on a registered channel; the transport puts it
\* in the inbox of the channel with that id
HostEmit(ch, payload) ==
    /\ ch \in host.registered
    /\ ch \in DOMAIN channels
    /\ host.seq < MaxMsgs
    /\ LET msg == [id |-> host.seq + 1, message |-> payload]
       IN  /\ channels' = [channels EXCEPT ![ch] = Append(@, msg)]
           /\ emitted' = [emitted EXCEPT ![ch] = Append(@, msg)]
           /\ early' = IF ConstructorReturned(ch) THEN early ELSE early \cup {msg.id}
    /\ host' = [host EXCEPT !.seq = @ + 1]
    /\ UNCHANGED <<observed, builder, history, calls, proxies, sent, consumed>>

CallIds == 1..MaxCalls

Next ==
    \/ \E id \in MenuIds : MenuWithId(id)
    \/ MenuDefault
    \/ \E t \in Texts, id \in ItemIds : MenuItemWithId(t, id)
    \/ \E o \in OptionInputs : MenuItemWithOptions(o)
    \/ \E c \in CallIds : MenuWithIdReturn(c)
    \/ \E c \in CallIds : MenuDefaultReturn(c)
    \/ \E c \in CallIds : MenuItemWithOptionsReturn(c)
    \/ \E c \in CallIds : InvokePanic(c)
    \/ \E m, i \in CallIds : AppendItem(m, i)
    \/ \E m \in CallIds : Popup(m)
    \/ \E c \in CallIds : FallibleReturn(c)
    \/ \E p \in CallIds : Recv(p)
    \/ \E c \in CallIds, h \in Handles, s \in HostIds : HostAnswerCreate(c, h, s)
    \/ \E c \in CallIds : HostAnswerUnit(c)
    \/ \E c \in CallIds : HostAnswerGarbage(c)
    \/ \E c \in CallIds : Reject(c)
    \/ \E ch \in CallIds, payload \in Payloads : HostEmit(ch, payload)

Spec == Init /\ [][Next]_vars

\* the program with a caller that also reads rid() and listen()
NextAccess ==
    \/ Next
    \/ \E p \in CallIds : CallRid(p)
    \/ \E p \in CallIds : CallListen(p)

SpecAccess == Init /\ [][NextAccess]_vars

\* a caller that builds MenuItemOptions and creates items from them
NextOptions ==
    \/ \E text \in Texts : OptionsNew(text)
    \/ \E id \in HostIds : OptionsSetId(id)
    \/ \E enabled \in BOOLEAN : OptionsSetEnabled(enabled)
    \/ \E accelerator \in Accelerators : OptionsSetAccelerator(accelerator)
    \/ MenuItemWithBuiltOptions

SpecOptions == Init /\ [][NextOptions]_vars

\* ---------------------------------------------------------------- claims
\* the constructor call that returned proxy p
CreatedBy(p) == CHOOSE c \in DOMAIN calls : calls[c].ret = p

\* rid() of proxy p, by the proxy's type
RidOf(p) == IF IsMenu(p) THEN MenuRid(p) ELSE MenuItemRid(p)

\* the requests call c has sent
RequestsOf(c) == {k \in DOMAIN sent : sent[k].call = c}

\* the channel id call c passed as handler of its creation request
HandlerOf(c) == RequestOf(c).args.handler["id"]

\* a fallible call on a proxy has come back
Operated(p, op, result) ==
    \E c \in DOMAIN calls :
        /\ calls[c].op = op
        /\ calls[c].self = p
        /\ calls[c].st = "returned"
        /\ calls[c].result = result

\* C1: the rid() of every proxy a constructor returned is the handle of the
\* host's response to that proxy's own creation request, in every state:
\* whatever append_item, popup and listen calls were made on it since, and
\* whether they succeeded or failed.
C1_RidIsResponseHandle ==
    \A p \in DOMAIN proxies :
        /\ Cardinality({c \in DOMAIN calls : calls[c].ret = p}) = 1
        /\ calls[CreatedBy(p)].op \in Creations
        /\ RidOf(p) = calls[CreatedBy(p)].answer.rid

\* a menu on which an append_item failed and whose channel was drained still
\* answers rid() with the handle of its creation response, which is not the
\* handle of the other proxy
C1_Witness ==
    \E m \in DOMAIN proxies :
        /\ IsMenu(m)
        /\ Operated(m, "Menu::append_item", "Err")
        /\ consumed[m] # <<>>
        /\ MenuRid(m) = calls[CreatedBy(m)].answer.rid
        /\ \E i \in DOMAIN proxies : IsMenuItem(i) /\ MenuItemRid(i) # MenuRid(m)

\* C2: the EntityId a proxy stores is the identifier string of the host's
\* creation response, and no step changes the id of an existing proxy.
C2_IdIsResponseId ==
    /\ [](\A p \in DOMAIN proxies :
            proxies[p].id = MenuIdFrom(calls[CreatedBy(p)].answer.id))
    /\ [][\A p \in DOMAIN proxies : proxies'[p].id = proxies[p].id]_vars

\* a menu created with the id "main" for which the host answered "host-7"
\* holds "host-7", after a popup on it succeeded
C2_Witness ==
    \E m \in DOMAIN proxies :
        /\ IsMenu(m)
        /\ calls[CreatedBy(m)].input = <<"main">>
        /\ calls[CreatedBy(m)].answer.id = "host-7"
        /\ proxies[m].id.value = "host-7"
        /\ Operated(m, "Menu::popup", "Ok")

\* C3 as stated: every proxy, a Menu::default one included, has exactly one
\* channel, and no channel belongs to two proxies.
C3_EveryProxyHasOneChannel ==
    /\ \A p \in DOMAIN proxies : IsSome(Listen(p)) /\ Unwrap(Listen(p)) \in DOMAIN channels
    /\ \A p, q \in DOMAIN proxies :
           (p # q /\ IsSome(Listen(p)) /\ IsSome(Listen(q))) => Listen(p) # Listen(q)

\* C3 (amended): a proxy built by Menu::with_id, MenuItem::with_id or
\* MenuItem::with_options has exactly one channel, a Menu built by
\* Menu::default has none, and no channel belongs to two proxies.
C3_OneChannelUnlessDefault ==
    /\ \A p \in DOMAIN proxies :
           IF calls[CreatedBy(p)].op = "Menu::default"
           THEN Listen(p) = None
           ELSE IsSome(Listen(p)) /\ Unwrap(Listen(p)) \in DOMAIN channels
    /\ \A p, q \in DOMAIN proxies :
           (p # q /\ IsSome(Listen(p)) /\ IsSome(Listen(q))) => Listen(p) # Listen(q)

\* a default menu without a channel beside an item that has its own, after
\* an append_item of the item to the menu
C3_Witness ==
    \E d, i \in DOMAIN proxies :
        /\ calls[CreatedBy(d)].op = "Menu::default" /\ Listen(d) = None
        /\ IsMenuItem(i) /\ Listen(i) = Some(calls[CreatedBy(i)].channel[1])
        /\ \E c \in DOMAIN calls :
               calls[c].op = "Menu::append_item" /\ calls[c].self = d /\ calls[c].item = i

IsPrefix(a, b) == Len(a) <= Len(b) /\ a = SubSeq(b, 1, Len(a))

C5_NothingLost ==
    \A p \in DOMAIN proxies :
        IsSome(Listen(p)) =>
            consumed[p] \o channels[Unwrap(Listen(p))] = emitted[HandlerOf(CreatedBy(p))]

\* an event emitted before the constructor returned was drained first, a
\* later one after it, with a popup on the proxy in between
C5_Witness ==
    \E m \in DOMAIN proxies :
        /\ Len(consumed[m]) = 2
        /\ consumed[m][1].id \in early
        /\ consumed[m][2].id \notin early
        /\ Operated(m, "Menu::popup", "Ok")

\* the request of call c, when it sent exactly one
OnlyRequestOf(c) == sent[CHOOSE k \in RequestsOf(c) : TRUE]

\* C6: every append_item(parent, child) call has sent exactly one request, a
\* plugin:menu|append whose rid is parent.rid(), whose kind is "Menu" and
\* whose items are the single pair (child.rid(), "MenuItem"); the child slot
\* carries neither the parent's handle nor the parent's kind.
C6_AppendRequest ==
    \A c \in DOMAIN calls :
        calls[c].op = "Menu::append_item" =>
            /\ Cardinality(RequestsOf(c)) = 1
            /\ LET req == OnlyRequestOf(c)
                   parent == calls[c].self
                   child == calls[c].item
               IN  /\ req.cmd = "plugin:menu|append"
                   /\ DOMAIN req.args = {"rid", "kind", "items"}
                   /\ req.args.rid = MenuRid(parent)
                   /\ req.args.kind = "\"Menu\""
                   /\ Len(req.args.items) = 1
                   /\ req.args.items[1] = <<MenuItemRid(child), "\"MenuItem\"">>
                   /\ req.args.items[1][1] # req.args.rid
                   /\ req.args.items[1][2] # req.args.kind

\* an append_item of an item to a menu has come back, after one request
C6_Witness ==
    \E c \in DOMAIN calls :
        /\ calls[c].op = "Menu::append_item"
        /\ calls[c].st = "returned"
        /\ sent[c].args.items = << <<proxies[calls[c].item].rid, "\"MenuItem\"">> >>
        /\ Len(sent) = Len(calls)

\* C7: every popup() call has sent one plugin:menu|popup request
\* {rid: the menu's rid(), kind: "Menu", window: null, at: null}, and once it
\* has returned, it returned Ok exactly when the host answered without an
\* error.
C7_PopupRequest ==
    \A c \in DOMAIN calls :
        calls[c].op = "Menu::popup" =>
            /\ Cardinality(RequestsOf(c)) = 1
            /\ OnlyRequestOf(c).cmd = "plugin:menu|popup"
            /\ OnlyRequestOf(c).args =
                   [rid |-> MenuRid(calls[c].self), kind |-> "\"Menu\"",
                    window |-> "null", at |-> "null"]
            /\ calls[c].st = "returned" =>
                   (calls[c].result = "Ok" <=> calls[c].answer.tag = "value")

\* one popup returned Ok after the host's answer, another Err after an error
C7_Witness ==
    \E c, d \in DOMAIN calls :
        /\ calls[c].op = "Menu::popup" /\ calls[d].op = "Menu::popup"
        /\ calls[c].st = "returned" /\ calls[c].result = "Ok"
        /\ calls[d].st = "returned" /\ calls[d].result = "Err"
        /\ calls[d].answer.tag = "error"

\* C8: every MenuItem::with_id(T, I) call has sent one plugin:menu|new
\* request {kind: "MenuItem", options: {id: I, text: T, enabled: null,
\* accelerator: null}, handler: {marker: true, id: the id of the channel the
\* call allocated}}, and the proxy it returns has the rid the host answered.
C8_MenuItemWithIdRequest ==
    \A c \in DOMAIN calls :
        calls[c].op = "MenuItem::with_id" =>
            /\ Cardinality(RequestsOf(c)) = 1
            /\ LET req == OnlyRequestOf(c)
                   T == calls[c].input[1]
                   I == calls[c].input[2]
               IN  /\ req.cmd = "plugin:menu|new"
                   /\ DOMAIN req.args = {"kind", "options", "handler"}
                   /\ req.args.kind = "\"MenuItem\""
                   /\ req.args.options =
                          [id |-> "\"" \o I \o "\"", text |-> "\"" \o T \o "\"",
                           enabled |-> "null", accelerator |-> "null"]
                   /\ req.args.handler["__TAURI_CHANNEL_MARKER__"] = TRUE
                   /\ req.args.handler["id"] = Unwrap(calls[c].channel)
            /\ calls[c].st = "returned" =>
                   /\ IsMenuItem(calls[c].ret)
                   /\ MenuItemRid(calls[c].ret) = calls[c].answer.rid

\* the item "Open" / "open-item" was created and holds the host's handle 2
C8_Witness ==
    \E c \in DOMAIN calls :
        /\ calls[c].op = "MenuItem::with_id"
        /\ calls[c].input = <<"Open", "open-item">>
        /\ calls[c].st = "returned"
        /\ calls[c].answer.rid = 2
        /\ MenuItemRid(calls[c].ret) = 2

\* C9: the handler of every creation request is the marker of the channel
\* the call allocated: an object of exactly the two fields
\* __TAURI_CHANNEL_MARKER__, which is true, and id, which is that channel's
\* id.
C9_ChannelMarker ==
    \A k \in DOMAIN sent :
        sent[k].cmd = "plugin:menu|new" =>
            /\ IsSome(calls[sent[k].call].channel)
            /\ DOMAIN sent[k].args.handler = {"__TAURI_CHANNEL_MARKER__", "id"}
            /\ sent[k].args.handler["__TAURI_CHANNEL_MARKER__"] = TRUE
            /\ sent[k].args.handler["id"] = Unwrap(calls[sent[k].call].channel)

\* the second call, the first to allocate a channel, sent the marker of
\* channel 1, and the host registered that channel
C9_Witness ==
    /\ Len(sent) = 2
    /\ calls[1].op = "Menu::default"
    /\ calls[2].op = "MenuItem::with_options"
    /\ sent[2].args.handler["__TAURI_CHANNEL_MARKER__"] = TRUE
    /\ sent[2].args.handler["id"] = 1
    /\ host.registered = {1}

\* C10: a constructor whose creation call fails returns no proxy: every proxy
\* comes from one constructor call that returned with the host's decoded
\* (handle, id), an aborted call has returned none, and there are exactly as
\* many proxies as constructor calls that returned.
C10_NoProxyOnFailure ==
    /\ \A c \in DOMAIN calls :
           (calls[c].st = "aborted" \/ calls[c].answer.tag \in {"error", "garbage"})
               => /\ calls[c].ret = 0
                  /\ calls[c].op \in Creations => calls[c].st # "returned"
    /\ \A p \in DOMAIN proxies :
           \E c \in DOMAIN calls :
               /\ calls[c].ret = p
               /\ calls[c].st = "returned"
               /\ calls[c].answer.tag = "value"
               /\ proxies[p].rid = calls[c].answer.rid
               /\ proxies[p].rid \in Handles
               /\ proxies[p].id.value = calls[c].answer.id
    /\ Len(proxies) =
           Cardinality({c \in DOMAIN calls :
                           calls[c].op \in Creations /\ calls[c].st = "returned"})

\* one constructor got an undecodable answer and aborted; the only proxy is
\* the one of the other constructor, on which a popup was then rejected
C10_Witness ==
    \E a, c \in DOMAIN calls :
        /\ calls[a].st = "aborted" /\ calls[a].answer.tag = "garbage"
        /\ calls[c].st = "returned" /\ calls[c].op \in Creations
        /\ Len(proxies) = 1
        /\ Operated(calls[c].ret, "Menu::popup", "Err")

\* the calls that are constructors or fallible operations: all of them
AsyncOps == Creations \cup Fallibles

\* C11: every constructor call and every append_item / popup call has sent
\* exactly one request and got at most one answer, whatever the outcome: no
\* step adds a request for a call that exists, so that nothing is retried.
C11_OneRequestPerCall ==
    /\ [](/\ Len(sent) = Len(calls)
          /\ \A c \in DOMAIN calls :
                /\ calls[c].op \in AsyncOps
                /\ Cardinality(RequestsOf(c)) = 1
                /\ calls[c].st \in {"returned", "aborted"} => calls[c].answer.tag # "none")
    /\ [][\A c \in DOMAIN calls :
             /\ {k \in DOMAIN sent' : sent'[k].call = c} = RequestsOf(c)
             /\ calls[c].answer.tag # "none" => calls'[c].answer = calls[c].answer]_vars

\* a constructor aborted, a menu was created and a popup on it was rejected
\* and returned Err: three calls, three requests
C11_Witness ==
    /\ Len(sent) = 3
    /\ \E a, c, d \in DOMAIN calls :
           /\ calls[a].op \in Creations /\ calls[a].st = "aborted"
           /\ calls[c].op \in Creations /\ calls[c].st = "returned"
           /\ calls[d].op = "Menu::popup" /\ calls[d].st = "returned"
           /\ calls[d].result = "Err"

\* C12: a rejected append_item or popup returns the bare Err, sends nothing
\* besides its one request, and leaves every proxy as it was: no step changes
\* the rid, id or channel of a proxy, so that the same operation issued again
\* on the same proxies sends the same request.
C12_RejectedLeavesProxy ==
    /\ [](\A c \in DOMAIN calls :
             (calls[c].op \in Fallibles /\ calls[c].st = "returned"
                  /\ calls[c].answer.tag = "error") =>
                 /\ calls[c].result = "Err"
                 /\ RequestsOf(c) = {c}
                 /\ \A k \in DOMAIN sent : k > c => sent[k].call # c
                 /\ \A d \in DOMAIN calls :
                        (calls[d].op = calls[c].op /\ calls[d].self = calls[c].self
                             /\ calls[d].item = calls[c].item) =>
                            /\ sent[d].cmd = sent[c].cmd
                            /\ sent[d].args = sent[c].args)
    /\ [][\A p \in DOMAIN proxies : proxies'[p] = proxies[p]]_vars

\* a popup was rejected, the caller issued it again with the same request,
\* and the second one succeeded
C12_Witness ==
    \E c, d \in DOMAIN calls :
        /\ c < d
        /\ calls[c].op = "Menu::popup" /\ calls[c].st = "returned"
        /\ calls[c].answer.tag = "error" /\ calls[c].result = "Err"
        /\ calls[d].op = "Menu::popup" /\ calls[d].self = calls[c].self
        /\ calls[d].st = "returned" /\ calls[d].result = "Ok"
        /\ sent[d].args = sent[c].args

\* C13: the host issuing a distinct handle per creation, no two proxies hold
\* the same handle: each handle is held by the one proxy whose creation
\* response returned it.
C13_HandlesExclusive ==
    /\ \A p, q \in DOMAIN proxies : p # q => proxies[p].rid # proxies[q].rid
    /\ \A p \in DOMAIN proxies :
           {c \in DOMAIN calls :
               calls[c].op \in Creations /\ calls[c].answer.tag = "value"
                   /\ calls[c].answer.rid = proxies[p].rid}
               = {CreatedBy(p)}

\* a menu and an item hold the two handles the host issued, after the item
\* was appended to the menu
C13_Witness ==
    \E m, i \in DOMAIN proxies :
        /\ IsMenu(m) /\ IsMenuItem(i)
        /\ {MenuRid(m), MenuItemRid(i)} = host.issued
        /\ Cardinality(host.issued) = 2
        /\ Operated(m, "Menu::append_item", "Ok")

\* the constructors that allocate a channel
ChannelCreations == Creations \ {"Menu::default"}

\* C16: the channel listen() gives for a proxy built by Menu::with_id,
\* MenuItem::with_id or MenuItem::with_options is the one whose id went as
\* handler into that proxy's own creation request, no two constructor calls
\* have the same channel, and the channel a constructor call starts with did
\* not exist before the call.
C16_ListenIsHandlerChannel ==
    /\ [](/\ \A p \in DOMAIN proxies :
                calls[CreatedBy(p)].op \in ChannelCreations =>
                    /\ Listen(p) = Some(HandlerOf(CreatedBy(p)))
                    /\ Listen(p) = calls[CreatedBy(p)].channel
          /\ \A c, d \in DOMAIN calls :
                (c # d /\ IsSome(calls[c].channel) /\ IsSome(calls[d].channel))
                    => /\ calls[c].channel # calls[d].channel
                       /\ HandlerOf(c) # HandlerOf(d))
    /\ [][\A c \in DOMAIN calls' :
             (c \notin DOMAIN calls /\ calls'[c].op \in ChannelCreations) =>
                 /\ IsSome(calls'[c].channel)
                 /\ Unwrap(calls'[c].channel) \notin DOMAIN channels
                 /\ Unwrap(calls'[c].channel) \in DOMAIN channels'
                 /\ channels'[Unwrap(calls'[c].channel)] = <<>>]_vars

\* a menu and an item, created in that order while both calls were in
\* flight, each listen on the channel of their own request: 1 and 2
C16_Witness ==
    \E m, i \in DOMAIN proxies :
        /\ IsMenu(m) /\ IsMenuItem(i)
        /\ MenuListen(m) = Some(1) /\ HandlerOf(CreatedBy(m)) = 1
        /\ MenuItemListen(i) = 2 /\ HandlerOf(CreatedBy(i)) = 2
        /\ i < m

\* C17: a Menu::default call has sent the single request
\* plugin:menu|create_default with the empty arguments (), has no channel
\* and registers none, and the menu it returns answers listen() with None in
\* every state; a menu returned by Menu::with_id answers with a channel.
\* There are exactly as many channels as calls of the other constructors.
C17_DefaultHasNoChannel ==
    /\ \A c \in DOMAIN calls :
           calls[c].op = "Menu::default" =>
               /\ RequestsOf(c) = {c}
               /\ sent[c].cmd = "plugin:menu|create_default"
               /\ sent[c].args = "null"
               /\ HandlerIds(sent[c]) = {}
               /\ calls[c].channel = None
               /\ calls[c].st = "returned" => MenuListen(calls[c].ret) = None
    /\ \A c \in DOMAIN calls :
           (calls[c].op = "Menu::with_id" /\ calls[c].st = "returned") =>
               /\ IsSome(MenuListen(calls[c].ret))
               /\ Unwrap(MenuListen(calls[c].ret)) \in DOMAIN channels
    /\ Len(channels) =
           Cardinality({c \in DOMAIN calls : calls[c].op \in ChannelCreations})

\* a default menu, after an item was appended to it and a popup on it was
\* answered, still has no channel; the only channel is the item's
C17_Witness ==
    \E d, i \in DOMAIN proxies :
        /\ calls[CreatedBy(d)].op = "Menu::default"
        /\ IsMenuItem(i)
        /\ \E c \in DOMAIN calls : calls[c].op = "Menu::append_item" /\ calls[c].self = d
        /\ MenuListen(d) = None
        /\ Len(channels) = 1
        /\ host.registered = {1}

\* a constructor call has returned a proxy with handle h, which the host
\* had answered
HandleCreated(h) ==
    \E c \in DOMAIN calls :
        /\ calls[c].op \in Creations
        /\ calls[c].st = "returned"
        /\ calls[c].answer.tag = "value"
        /\ calls[c].answer.rid = h
        /\ calls[c].ret \in DOMAIN proxies
        /\ proxies[calls[c].ret].rid = h

\* the handles an append or popup request carries
HandlesIn(req) ==
    {req.args.rid} \cup
    (IF req.cmd = "plugin:menu|append"
     THEN {req.args.items[j][1] : j \in DOMAIN req.args.items}
     ELSE {})

IsOperation(req) == req.cmd \in {"plugin:menu|append", "plugin:menu|popup"}

\* C18: an append or popup request is sent only for handles whose creation
\* response the frontend has received: in the step that sends it the
\* constructor calls of those handles have already returned; and a proxy,
\* once returned, stays as it is, with its operations available.
C18_OperationsAfterCreation ==
    /\ [](/\ \A k \in DOMAIN sent :
                IsOperation(sent[k]) => \A h \in HandlesIn(sent[k]) : HandleCreated(h)
          /\ \A m \in DOMAIN proxies :
                (IsMenu(m) /\ Len(calls) < MaxCalls) => ENABLED Popup(m))
    /\ [][/\ \A k \in DOMAIN sent' :
                (k \notin DOMAIN sent /\ IsOperation(sent'[k])) =>
                    \A h \in HandlesIn(sent'[k]) : HandleCreated(h)
          /\ \A p \in DOMAIN proxies :
                /\ p \in DOMAIN proxies'
                /\ proxies'[p].type = proxies[p].type
                /\ calls'[CreatedBy(p)].st = "returned"]_vars

\* an append was sent and answered: it carries the handles of a menu and of
\* an item, both returned by their constructors before
C18_Witness ==
    \E k \in DOMAIN sent :
        /\ sent[k].cmd = "plugin:menu|append"
        /\ Cardinality(HandlesIn(sent[k])) = 2
        /\ \A h \in HandlesIn(sent[k]) : HandleCreated(h)
        /\ calls[k].st = "returned"

ItemKinds ==
    {ItemKind_MenuItem, ItemKind_Predefined, ItemKind_Check,
     ItemKind_Icon, ItemKind_Submenu, ItemKind_Menu}

\* C19: the kind sent beside a handle follows the type of the proxy, whatever
\* the handle's value: a request a Menu issues for itself carries "Menu", a
\* MenuItem creation request and a child slot carry "MenuItem", and the six
\* ItemKind tags have six different strings.
C19_KindFollowsType ==
    /\ \A k \in DOMAIN sent :
           LET op == calls[sent[k].call].op
           IN  /\ op = "Menu::with_id" => sent[k].args.kind = "\"Menu\""
               /\ op \in {"MenuItem::with_id", "MenuItem::with_options"} =>
                      sent[k].args.kind = "\"MenuItem\""
               /\ op \in Fallibles =>
                      /\ sent[k].args.kind = "\"Menu\""
                      /\ IsMenu(calls[sent[k].call].self)
               /\ op = "Menu::append_item" =>
                      /\ \A j \in DOMAIN sent[k].args.items :
                             sent[k].args.items[j][2] = "\"MenuItem\""
                      /\ IsMenuItem(calls[sent[k].call].item)
    /\ Cardinality(ItemKinds) = 6
    /\ Cardinality({ItemKind_as_str(k) : k \in ItemKinds}) = 6
    /\ MenuKind = "Menu" /\ MenuItemKind = "MenuItem"

\* a menu with handle 2 and an item with handle 1: the append carries
\* (2, "Menu") and (1, "MenuItem")
C19_Witness ==
    \E k \in DOMAIN sent :
        /\ sent[k].cmd = "plugin:menu|append"
        /\ sent[k].args.rid = 2 /\ sent[k].args.kind = "\"Menu\""
        /\ sent[k].args.items = << <<1, "\"MenuItem\"">> >>

\* C14: a rid() or listen() call on a Menu or a MenuItem sends no request
\* and leaves every proxy (handle, id, channel) and every inbox as it was;
\* what it returned is what the proxy holds, in every later state too.
C14_AccessorsArePure ==
    /\ [][observed' # observed =>
             /\ sent' = sent
             /\ calls' = calls
             /\ proxies' = proxies
             /\ channels' = channels
             /\ consumed' = consumed
             /\ host' = host
             /\ observed'.proxy \in DOMAIN proxies]_vars
    /\ [](observed # NoObservation =>
             /\ observed.op = "rid" => observed.rid = RidOf(observed.proxy)
             /\ observed.op = "listen" => observed.channel = Listen(observed.proxy))
    /\ [][\A p \in DOMAIN proxies : proxies'[p] = proxies[p]]_vars

\* listen() was called on a menu whose inbox holds an event: the event is
\* still there, the menu still has its channel, nothing more was sent
C14_Witness ==
    /\ observed.op = "listen"
    /\ observed.proxy \in DOMAIN proxies
    /\ IsMenu(observed.proxy)
    /\ observed.channel = Some(1)
    /\ MenuListen(observed.proxy) = Some(1)
    /\ channels[1] # <<>>
    /\ Len(sent) = Len(calls)

\* the set_* calls of h on a field, and the last of them
SetsOf(h, field) == {k \in DOMAIN h : h[k].field = field}
LastOf(h, field) == h[CHOOSE k \in SetsOf(h, field) : \A j \in SetsOf(h, field) : j <= k]

\* the options a request must carry after the calls of h
ExpectedOptions(h) ==
    [id |-> IF SetsOf(h, "id") = {} THEN "null"
            ELSE "\"" \o LastOf(h, "id").string \o "\"",
     text |-> "\"" \o h[1].string \o "\"",
     enabled |-> IF SetsOf(h, "enabled") = {} THEN "null"
                 ELSE IF LastOf(h, "enabled").bool THEN "true" ELSE "false",
     accelerator |-> IF SetsOf(h, "accelerator") = {} THEN "null"
                     ELSE "\"" \o LastOf(h, "accelerator").string \o "\""]

\* C15: the request of MenuItem::with_options carries the text given to
\* new() unchanged, for each field that was set the value of the last set_*
\* call on it, and null for each field no call set.
C15_OptionsAsBuilt ==
    /\ \A c \in DOMAIN calls :
           (calls[c].op = "MenuItem::with_options" /\ calls[c].input # <<>>) =>
               /\ calls[c].input[1].field = "text"
               /\ sent[c].args.options = ExpectedOptions(calls[c].input)
    /\ IsSome(builder) =>
           MenuItemOptionsSerialize(Unwrap(builder)) = ExpectedOptions(history)

\* new("Quit"), set_enabled(true), set_enabled(false): the request carries
\* text "Quit", enabled false, and null for id and accelerator
C15_Witness ==
    \E c \in DOMAIN calls :
        /\ calls[c].op = "MenuItem::with_options"
        /\ calls[c].input = <<BuilderCall("text", "Quit", FALSE),
                              BuilderCall("enabled", "", TRUE),
                              BuilderCall("enabled", "", FALSE)>>
        /\ sent[c].args.options =
               [id |-> "null", text |-> "\"Quit\"",
                enabled |-> "false", accelerator |-> "null"]

====
